---- MODULE Spec2Model ----
(***************************************************************************)
(* Model of endian_io.c: write_endian / read_endian and the byte-swap      *)
(* helpers they rest on, driven by a caller in the style of test.c (open a *)
(* file "wb", write an array, reopen "rb", read it back).                  *)
(*                                                                         *)
(* Memory is modelled byte by byte.  A machine word (uint16_t, uint32_t,   *)
(* uint64_t) is the sequence of its base-256 digits, most significant      *)
(* first, so that 64-bit values need no wide integers; shifts by whole     *)
(* bytes, masks and ORs are computed digit by digit.                       *)
(***************************************************************************)
EXTENDS Integers, Sequences, FiniteSets, TLC

VARIABLES
    host_little,  \* hardware: least significant byte at the lowest address
    build,        \* which preprocessor branch of write_endian was compiled
    esize,        \* sizeof one element of the caller's arrays
    count,        \* number of elements of the caller's arrays
    src,          \* caller's source array (data_out), bytes
    dst,          \* caller's destination array (data_in), bytes
    file,         \* the FILE: [content, pos]; writes append, reads use pos
    buffer,       \* scratch buffer of write_endian (<<>> when none)
    heap,         \* [live, nalloc, nfree, bad] of the running/last call
    pc,           \* "idle", "write_loop" (in the batch loop), "returned"
    call,         \* arguments of the running/last call
    offset,       \* loop variable of write_endian
    ret,          \* return value of the last call
    pre,          \* history: file and dst as they were at call entry
    io,           \* history: [path, short, at, got] of the running/last call
    caller,       \* the caller's session: [phase, next, ncalls, order, ok, made]
    saved,        \* history: result of an earlier single-call session
    faults        \* failures injected so far (bad argument, short write, no memory)

vars == <<host_little, build, esize, count, src, dst, file, buffer, heap,
          pc, call, offset, ret, pre, io, caller, saved, faults>>

\* ------------------------------------------------------------------------
\* Program constants and model bounds
\* ------------------------------------------------------------------------
buffer_size == 256

MaxNum == 2        \* largest element count of the small arrays
MaxCalls == 2      \* data-transferring calls per session
MaxFaults == 1     \* injected failures per behaviour

ENDIAN_LITTLE == "LE"
ENDIAN_BIG == "BE"
Endians == {ENDIAN_LITTLE, ENDIAN_BIG}

\* "heap": _ISOC11_SOURCE or _POSIX_VERSION is defined (aligned_alloc or
\* posix_memalign, and the free calls); "stack": neither (stack_buffer)
Builds == {"heap", "stack"}

SmallSizes == {1, 2, 3, 4, 8}

\* <<element size, element count>> of the caller's arrays: small arrays for
\* every swap routine, and one element larger than the scratch buffer
SmallShapes ==
    {<<s, n>> : s \in SmallSizes, n \in 1..MaxNum}
    \cup {<<buffer_size + 1, 1>>}

\* arrays of buffer_size - 1, buffer_size and buffer_size + 1 bytes, and one
\* of 3-byte elements that needs a second batch
LargeShapes ==
    {<<17, (buffer_size - 1) \div 17>>, <<16, buffer_size \div 16>>,
     <<1, buffer_size + 1>>, <<3, (buffer_size \div 3) + 1>>}

\* <<host is little-endian, build, shape>>
Machines ==
    (BOOLEAN \X Builds \X SmallShapes) \cup (BOOLEAN \X {"heap"} \X LargeShapes)

\* ------------------------------------------------------------------------
\* Bytes and words
\* ------------------------------------------------------------------------
RECURSIVE BitOr(_, _)
BitOr(a, b) ==
    IF a = 0 THEN b
    ELSE IF b = 0 THEN a
    ELSE (IF a % 2 = 1 \/ b % 2 = 1 THEN 1 ELSE 0)
         + 2 * BitOr(a \div 2, b \div 2)

RECURSIVE BitAnd(_, _)
BitAnd(a, b) ==
    IF a = 0 \/ b = 0 THEN 0
    ELSE (IF a % 2 = 1 /\ b % 2 = 1 THEN 1 ELSE 0)
         + 2 * BitAnd(a \div 2, b \div 2)

Zeros(n) == [k \in 1..n |-> 0]

Reverse(s) == [k \in 1..Len(s) |-> s[Len(s) + 1 - k]]

\* x >> 8*k and x << 8*k on a word of Len(w) bytes (the result is truncated
\* to the width of the word, as the C types do)
Shr(w, k) == Zeros(k) \o SubSeq(w, 1, Len(w) - k)
Shl(w, k) == SubSeq(w, k + 1, Len(w)) \o Zeros(k)
WordAnd(w, m) == [k \in 1..Len(w) |-> BitAnd(w[k], m[k])]
WordOr(w, m) == [k \in 1..Len(w) |-> BitOr(w[k], m[k])]

\* the constant 0xFF << 8*j as a word of n bytes
ByteMask(n, j) == [k \in 1..n |-> IF k = n - j THEN 255 ELSE 0]

\* bytes in memory <-> word, as the hardware loads and stores it (the
\* uint16_t/uint32_t/uint64_t accesses of convert_endian are taken to be
\* to suitably aligned memory: a plain load and store of `size` bytes)
HostWord(bytes) == IF host_little THEN Reverse(bytes) ELSE bytes

Splice(bytes, off, new) ==
    SubSeq(bytes, 1, off) \o new
    \o SubSeq(bytes, off + Len(new) + 1, Len(bytes))

Load(bytes, off, n) == HostWord(SubSeq(bytes, off + 1, off + n))
Store(bytes, off, w) == Splice(bytes, off, HostWord(w))

\* ------------------------------------------------------------------------
\* Endianness detection and byte-swap helpers
\* ------------------------------------------------------------------------
is_little_endian == HostWord(<<0, 1>>)[1] = 1

bswap16(x) == WordOr(Shr(x, 1), Shl(x, 1))

bswap32(x) ==
    WordOr(WordOr(WordAnd(Shr(x, 3), ByteMask(4, 0)),
                  WordAnd(Shr(x, 1), ByteMask(4, 1))),
           WordOr(WordAnd(Shl(x, 1), ByteMask(4, 2)),
                  WordAnd(Shl(x, 3), ByteMask(4, 3))))

bswap64(x) ==
    WordOr(WordOr(WordOr(WordAnd(Shr(x, 7), ByteMask(8, 0)),
                         WordAnd(Shr(x, 5), ByteMask(8, 1))),
                  WordOr(WordAnd(Shr(x, 3), ByteMask(8, 2)),
                         WordAnd(Shr(x, 1), ByteMask(8, 3)))),
           WordOr(WordOr(WordAnd(Shl(x, 1), ByteMask(8, 4)),
                         WordAnd(Shl(x, 3), ByteMask(8, 5))),
                  WordOr(WordAnd(Shl(x, 5), ByteMask(8, 6)),
                         WordAnd(Shl(x, 7), ByteMask(8, 7)))))

\* body of the loop of reverse_bytes: swap data[i] and data[size - 1 - i]
reverse_step(bytes, off, size, i) ==
    [bytes EXCEPT ![off + i + 1] = bytes[off + size - i],
                  ![off + size - i] = bytes[off + i + 1]]

\* the loop for i in [lo, hi), iterations in increasing order (the range is
\* halved to keep the evaluation shallow)
RECURSIVE reverse_loop(_, _, _, _, _)
reverse_loop(bytes, off, size, lo, hi) ==
    IF lo >= hi THEN bytes
    ELSE IF hi = lo + 1 THEN reverse_step(bytes, off, size, lo)
    ELSE LET mid == (lo + hi) \div 2
             b == reverse_loop(bytes, off, size, lo, mid)
         IN IF Len(b) = Len(bytes)
            THEN reverse_loop(b, off, size, mid, hi)
            ELSE b

\* reverse_bytes on the `size` bytes at byte offset `off` of a memory region
reverse_bytes(bytes, off, size) ==
    reverse_loop(bytes, off, size, 0, size \div 2)

\* mutant: no generic reversal for the sizes without a bswap routine
convert_endian_no_default(bytes, off, size) ==
    CASE size = 2 -> Store(bytes, off, bswap16(Load(bytes, off, 2)))
      [] size = 4 -> Store(bytes, off, bswap32(Load(bytes, off, 4)))
      [] size = 8 -> Store(bytes, off, bswap64(Load(bytes, off, 8)))
      [] OTHER -> bytes

convert_endian(bytes, off, size) ==
    CASE size = 2 -> Store(bytes, off, bswap16(Load(bytes, off, 2)))
      [] size = 4 -> Store(bytes, off, bswap32(Load(bytes, off, 4)))
      [] size = 8 -> Store(bytes, off, bswap64(Load(bytes, off, 8)))
      [] OTHER -> reverse_bytes(bytes, off, size)

\* mutant: the host is taken to be little-endian
swap_needed_little_only(endian) == endian = ENDIAN_BIG

swap_needed(endian) ==
    \/ is_little_endian /\ endian = ENDIAN_BIG
    \/ ~is_little_endian /\ endian = ENDIAN_LITTLE

memcpy(to, toOff, from, fromOff, n) ==
    Splice(to, toOff, SubSeq(from, fromOff + 1, fromOff + n))

\* ------------------------------------------------------------------------
\* The caller's arrays (test.c: data_out holds numbers, data_in is cleared)
\* ------------------------------------------------------------------------
\* digit j (0 = most significant) of the number held by element e; element
\* 0 of a 4-byte array is 0x11223344
ValueDigit(e, j) == (17 * (j + 1) + 89 * e) % 256

ValueWord(e, size) == [k \in 1..size |-> ValueDigit(e, k - 1)]

\* the array as the compiler lays it out for the host: element e at bytes
\* [e*size, (e+1)*size), least significant digit first on a little-endian
\* host
data_out(little, size, n) ==
    [k \in 1..(size * n) |->
        LET e == (k - 1) \div size
            j == (k - 1) % size
        IN ValueDigit(e, IF little THEN size - 1 - j ELSE j)]

data_in(size, n) == Zeros(size * n)

\* ------------------------------------------------------------------------
\* The stream (FILE) and the allocator
\* ------------------------------------------------------------------------
Min(a, b) == IF a < b THEN a ELSE b

\* failures are injected up to MaxFaults times, and not while the caller
\* repeats a remembered session
MayFail == faults < MaxFaults /\ saved.kind = "none"

\* number of bytes the stream may accept of a request of req bytes: all of
\* them, or fewer (disk full, broken pipe)
Accepted(req) ==
    {req} \cup (IF MayFail
                THEN {k \in {0, req - 1} : k >= 0 /\ k < req}
                ELSE {})

\* fwrite(ptr, size, nmemb, file) when the stream accepts acc bytes: the
\* bytes are appended and the number of complete elements is returned
fwrite(bytes, off, size, nmemb, acc) ==
    [file |-> [file EXCEPT !.content = @ \o SubSeq(bytes, off + 1, off + acc)],
     ret  |-> acc \div size]

\* fread(ptr, 1, size, file) into `bytes` at byte offset off: transfers what
\* is left in the stream, at most size bytes, and returns that number
fread(bytes, off, size, content, pos) ==
    LET got == Min(size, Len(content) - pos) IN
    [bytes |-> memcpy(bytes, off, content, pos, got),
     got   |-> got]

NoHeap == [live |-> FALSE, nalloc |-> 0, nfree |-> 0, bad |-> FALSE]

\* the builds that take the scratch buffer from the heap
HeapBuild == build = "heap"

\* aligned_alloc / posix_memalign / stack_buffer of write_endian
alloc_buffer(h, ok) ==
    IF ~HeapBuild THEN [h EXCEPT !.nalloc = @ + 1]
    ELSE IF ok THEN [h EXCEPT !.live = TRUE, !.nalloc = @ + 1]
    ELSE h

\* mutant: the buffer is released on the normal exit only
free_buffer_on_success(h) ==
    IF HeapBuild /\ offset >= call.num
    THEN [h EXCEPT !.live = FALSE, !.nfree = @ + 1, !.bad = @ \/ ~h.live]
    ELSE h

\* the free(buffer) lines of write_endian, compiled in for the heap builds
free_buffer(h) ==
    IF HeapBuild
    THEN [h EXCEPT !.live = FALSE, !.nfree = @ + 1, !.bad = @ \/ ~h.live]
    ELSE h

\* content of a fresh scratch buffer (never read before it is written)
FreshBuffer == [k \in 1..buffer_size |-> 205]

\* ------------------------------------------------------------------------
\* write_endian
\* ------------------------------------------------------------------------
\* mutant: the element is swapped where it lies, then copied
copy_swap_elem_in_place(mem, data, off, i, size) ==
    LET d == i * size
        s == data + (off + i) * size
        m1 == [mem EXCEPT !.src = convert_endian(@, s, size)]
    IN [m1 EXCEPT !.buffer = memcpy(@, d, m1.src, s, size)]

\* mutant: the source index forgets the batch offset
copy_swap_elem_no_offset(mem, data, off, i, size) ==
    LET d == i * size
        s == data + i * size
        m1 == [mem EXCEPT !.buffer = memcpy(@, d, mem.src, s, size)]
    IN [m1 EXCEPT !.buffer = convert_endian(@, d, size)]

\* body of the copy + swap loop, on the memory [src, buffer]
copy_swap_elem(mem, data, off, i, size) ==
    LET d == i * size
        s == data + (off + i) * size
        m1 == [mem EXCEPT !.buffer = memcpy(@, d, mem.src, s, size)]
    IN [m1 EXCEPT !.buffer = convert_endian(@, d, size)]

\* the copy + swap loop for i in [lo, hi), iterations in increasing order
\* (the range is halved to keep the evaluation shallow)
RECURSIVE copy_swap(_, _, _, _, _, _)
copy_swap(mem, data, off, lo, hi, size) ==
    IF lo >= hi THEN mem
    ELSE IF hi = lo + 1 THEN copy_swap_elem(mem, data, off, lo, size)
    ELSE LET mid == (lo + hi) \div 2
             m == copy_swap(mem, data, off, lo, mid, size)
         IN IF Len(m.buffer) = buffer_size
            THEN copy_swap(m, data, off, mid, hi, size)
            ELSE m

block_elems(size) == buffer_size \div size

batch_of(num, off, size) ==
    IF num - off < block_elems(size) THEN num - off ELSE block_elems(size)

\* mutant: the element count is not checked
write_args_ok_any_num(c) == c.file /\ c.data /\ c.size /= 0

write_args_ok(c) == c.file /\ c.data /\ c.size /= 0 /\ c.num /= 0

NoCall == [kind |-> "none", file |-> FALSE, data |-> FALSE, doff |-> 0,
           num |-> 0, size |-> 0, endian |-> ENDIAN_BIG]

NoIo == [path |-> "none", short |-> FALSE, at |-> 0, got |-> 0]

\* what the caller does with the result of a call
Merge(order, endian) ==
    IF order = "none" \/ order = endian THEN endian ELSE "mixed"

CallerAfter(c, r, short) ==
    IF r = 0 /\ c.num > 0
    THEN [caller EXCEPT !.next = @ + c.num, !.ncalls = @ + 1,
                        !.order = Merge(@, c.endian)]
    ELSE IF short THEN [caller EXCEPT !.ok = FALSE]
    ELSE caller

\* the element counts the caller asks for, of rem elements left
NumChoices(rem) == {n \in {0, 1, rem} : n <= rem}

\* argument tuples <<file, data, num, size>>: the valid ones and those with
\* one argument absent or zero
ArgChoices(rem) ==
    {<<TRUE, TRUE, n, esize>> : n \in NumChoices(rem)}
    \cup (IF MayFail /\ pc = "idle"
          THEN {<<FALSE, TRUE, rem, esize>>, <<TRUE, FALSE, rem, esize>>,
                <<TRUE, TRUE, rem, 0>>}
          ELSE {})

\* the orders the caller asks for: once a session is remembered, the next
\* ones repeat its order
OrderChoice(endian) == saved.kind = "none" \/ saved.order = endian

CanCall(phase) ==
    /\ pc \in {"idle", "returned"}
    /\ caller.phase = phase
    /\ caller.ok
    /\ caller.ncalls < MaxCalls

\* write_be / write_le: write_endian up to the first loop test
write_endian_call(c) ==
    /\ pre' = [content |-> file.content, pos |-> file.pos, dst |-> dst]
    /\ call' = c
    /\ offset' = 0
    /\ UNCHANGED <<host_little, build, esize, count, src, dst, saved>>
    /\ IF ~write_args_ok(c)
       THEN /\ ret' = -1 /\ pc' = "returned"
            /\ io' = [NoIo EXCEPT !.path = "args"]
            /\ heap' = NoHeap
            /\ caller' = CallerAfter(c, -1, FALSE)
            /\ faults' = IF c.num = 0 /\ c.file /\ c.data /\ c.size /= 0
                         THEN faults ELSE faults + 1
            /\ UNCHANGED <<file, buffer>>
       ELSE IF ~swap_needed(c.endian)
       THEN \E acc \in Accepted(c.num * c.size) :
              LET w == fwrite(src, c.doff, c.size, c.num, acc)
                  r == IF w.ret = c.num THEN 0 ELSE -1
              IN /\ file' = w.file
                 /\ ret' = r /\ pc' = "returned"
                 /\ io' = [NoIo EXCEPT !.path = "fast", !.short = (r /= 0)]
                 /\ heap' = NoHeap
                 /\ caller' = CallerAfter(c, r, r /= 0)
                 /\ faults' = IF r /= 0 THEN faults + 1 ELSE faults
                 /\ UNCHANGED buffer
       ELSE \E ok \in {TRUE} \cup {b \in {FALSE} : HeapBuild /\ MayFail} :
              LET h == alloc_buffer(NoHeap, ok) IN
              /\ heap' = h
              /\ faults' = IF ok THEN faults ELSE faults + 1
              /\ UNCHANGED file
              /\ IF h.nalloc = 0
                 THEN /\ ret' = -1 /\ pc' = "returned"
                      /\ io' = [NoIo EXCEPT !.path = "nomem"]
                      /\ caller' = CallerAfter(c, -1, FALSE)
                      /\ UNCHANGED buffer
                 ELSE /\ ret' = 0 /\ pc' = "write_loop"
                      /\ io' = [NoIo EXCEPT !.path = "swap"]
                      /\ buffer' = FreshBuffer
                      /\ UNCHANGED caller

write_be ==
    /\ CanCall("writing")
    /\ OrderChoice(ENDIAN_BIG)
    /\ \E a \in ArgChoices(count - caller.next) :
         write_endian_call([kind |-> "write", file |-> a[1], data |-> a[2],
                            doff |-> caller.next * esize, num |-> a[3],
                            size |-> a[4], endian |-> ENDIAN_BIG])

write_le ==
    /\ CanCall("writing")
    /\ OrderChoice(ENDIAN_LITTLE)
    /\ \E a \in ArgChoices(count - caller.next) :
         write_endian_call([kind |-> "write", file |-> a[1], data |-> a[2],
                            doff |-> caller.next * esize, num |-> a[3],
                            size |-> a[4], endian |-> ENDIAN_LITTLE])

\* one iteration of the batch loop of write_endian
write_endian_batch ==
    /\ pc = "write_loop"
    /\ offset < call.num
    /\ LET batch == batch_of(call.num, offset, call.size)
           m == copy_swap([src |-> src, buffer |-> buffer], call.doff,
                          offset, 0, batch, call.size)
       IN \E acc \in Accepted(batch * call.size) :
            LET w == fwrite(m.buffer, 0, call.size, batch, acc) IN
            /\ src' = m.src
            /\ file' = w.file
            /\ IF w.ret /= batch
               THEN /\ heap' = free_buffer(heap)
                    /\ buffer' = <<>>
                    /\ ret' = -1 /\ pc' = "returned"
                    /\ io' = [io EXCEPT !.short = TRUE]
                    /\ caller' = CallerAfter(call, -1, TRUE)
                    /\ faults' = faults + 1
                    /\ UNCHANGED offset
               ELSE /\ offset' = offset + batch
                    /\ buffer' = m.buffer
                    /\ UNCHANGED <<heap, ret, pc, io, caller, faults>>
    /\ UNCHANGED <<host_little, build, esize, count, dst, call, pre, saved>>

\* the loop test fails: release the buffer and return 0
write_endian_exit ==
    /\ pc = "write_loop"
    /\ offset >= call.num
    /\ heap' = free_buffer(heap)
    /\ buffer' = <<>>
    /\ ret' = 0 /\ pc' = "returned"
    /\ caller' = CallerAfter(call, 0, FALSE)
    /\ UNCHANGED <<host_little, build, esize, count, src, dst, file, call,
                   offset, pre, io, saved, faults>>

\* ------------------------------------------------------------------------
\* read_endian
\* ------------------------------------------------------------------------
\* mutant: a zero element count is rejected, as write_endian does
read_args_ok_no_zero(c) == c.file /\ c.data /\ c.size /= 0 /\ c.num /= 0

read_args_ok(c) == c.file /\ c.data /\ c.size /= 0

\* mutant: the element is converted before the length of the read is tested
read_elem_swap_first(st, content, i, c) ==
    IF st.ret /= 0 THEN st
    ELSE LET off == c.doff + i * c.size
             r == fread(st.dst, off, c.size, content, st.pos)
             d == IF swap_needed(c.endian)
                  THEN convert_endian(r.bytes, off, c.size)
                  ELSE r.bytes
         IN IF r.got /= c.size
            THEN [dst |-> d, pos |-> st.pos + r.got, ret |-> -1,
                  at |-> i, got |-> r.got]
            ELSE [st EXCEPT !.dst = d, !.pos = @ + r.got, !.at = i + 1]

\* body of the element loop of read_endian; st is [dst, pos, ret, at, got]:
\* the destination array, the stream position, and, once the loop has been
\* left by `return -1`, ret = -1 with the index and size of the short read
read_elem(st, content, i, c) ==
    IF st.ret /= 0 THEN st
    ELSE LET off == c.doff + i * c.size
             r == fread(st.dst, off, c.size, content, st.pos)
         IN IF r.got /= c.size
            THEN [dst |-> r.bytes, pos |-> st.pos + r.got, ret |-> -1,
                  at |-> i, got |-> r.got]
            ELSE [st EXCEPT !.dst = IF swap_needed(c.endian)
                                    THEN convert_endian(r.bytes, off, c.size)
                                    ELSE r.bytes,
                            !.pos = @ + r.got,
                            !.at = i + 1]

\* the element loop for i in [lo, hi), iterations in increasing order (the
\* range is halved to keep the evaluation shallow)
RECURSIVE read_loop(_, _, _, _, _)
read_loop(st, content, lo, hi, c) ==
    IF lo >= hi THEN st
    ELSE IF hi = lo + 1 THEN read_elem(st, content, lo, c)
    ELSE LET mid == (lo + hi) \div 2
             s == read_loop(st, content, lo, mid, c)
         IN IF s.ret = 0 THEN read_loop(s, content, mid, hi, c) ELSE s

\* read_be / read_le: the whole of read_endian
read_endian_call(c) ==
    /\ pre' = [content |-> file.content, pos |-> file.pos, dst |-> dst]
    /\ call' = c
    /\ pc' = "returned"
    /\ heap' = NoHeap
    /\ UNCHANGED <<host_little, build, esize, count, src, buffer, offset,
                   saved>>
    /\ IF ~read_args_ok(c)
       THEN /\ ret' = -1
            /\ io' = [NoIo EXCEPT !.path = "args"]
            /\ caller' = CallerAfter(c, -1, FALSE)
            /\ faults' = faults + 1
            /\ UNCHANGED <<dst, file>>
       ELSE LET r == read_loop([dst |-> dst, pos |-> file.pos, ret |-> 0,
                                at |-> 0, got |-> 0],
                               file.content, 0, c.num, c) IN
            /\ dst' = r.dst
            /\ file' = [file EXCEPT !.pos = r.pos]
            /\ ret' = r.ret
            /\ io' = [NoIo EXCEPT !.path = "read", !.short = (r.ret /= 0),
                                  !.at = r.at, !.got = r.got]
            /\ caller' = CallerAfter(c, r.ret, r.ret /= 0)
            /\ UNCHANGED faults

read_be ==
    /\ CanCall("reading")
    /\ OrderChoice(ENDIAN_BIG)
    /\ \E a \in ArgChoices(count - caller.next) :
         read_endian_call([kind |-> "read", file |-> a[1], data |-> a[2],
                           doff |-> caller.next * esize, num |-> a[3],
                           size |-> a[4], endian |-> ENDIAN_BIG])

read_le ==
    /\ CanCall("reading")
    /\ OrderChoice(ENDIAN_LITTLE)
    /\ \E a \in ArgChoices(count - caller.next) :
         read_endian_call([kind |-> "read", file |-> a[1], data |-> a[2],
                           doff |-> caller.next * esize, num |-> a[3],
                           size |-> a[4], endian |-> ENDIAN_LITTLE])

\* ------------------------------------------------------------------------
\* The caller (test.c): sessions of writes on a file opened "wb", then of
\* reads on the file reopened "rb"
\* ------------------------------------------------------------------------
NoSaved == [kind |-> "none", order |-> "none", n |-> 0, bytes |-> <<>>]

NoMade == [ncalls |-> 0, order |-> "none", n |-> 0, ok |-> FALSE]

NewSession(phase, made) ==
    [phase |-> phase, next |-> 0, ncalls |-> 0, order |-> "none",
     ok |-> TRUE, made |-> made]

\* the session so far is one successful call
SingleCall == caller.ok /\ caller.ncalls = 1

BetweenCalls == pc \in {"idle", "returned"}

ResetFrame ==
    /\ pc' = "idle"
    /\ call' = NoCall
    /\ ret' = 0
    /\ offset' = 0
    /\ heap' = NoHeap
    /\ io' = NoIo
    /\ UNCHANGED <<host_little, build, esize, count, src, buffer, faults>>

\* fclose; fopen(name, "rb")
Reopen ==
    /\ BetweenCalls
    /\ caller.phase = "writing"
    /\ caller.ncalls <= 1
    /\ file' = [file EXCEPT !.pos = 0]
    /\ caller' = NewSession("reading",
                            [ncalls |-> caller.ncalls, order |-> caller.order,
                             n |-> caller.next, ok |-> caller.ok])
    /\ saved' = NoSaved
    /\ pre' = [content |-> file.content, pos |-> 0, dst |-> dst]
    /\ UNCHANGED dst
    /\ ResetFrame

\* rewind(file); memset(data_in, 0, sizeof data_in)
Rewind ==
    /\ BetweenCalls
    /\ caller.phase = "reading"
    /\ caller.next > 0 \/ ~caller.ok
    /\ file' = [file EXCEPT !.pos = 0]
    /\ dst' = data_in(esize, count)
    /\ caller' = NewSession("reading", caller.made)
    /\ saved' = IF SingleCall /\ saved.kind = "none"
                THEN [kind |-> "read", order |-> caller.order,
                      n |-> caller.next,
                      bytes |-> SubSeq(dst, 1, caller.next * esize)]
                ELSE saved
    /\ pre' = [content |-> file.content, pos |-> 0, dst |-> dst']
    /\ ResetFrame

\* fclose; fopen(name, "wb"): the file is truncated
Truncate ==
    /\ BetweenCalls
    /\ Len(file.content) > 0
    /\ file' = [content |-> <<>>, pos |-> 0]
    /\ dst' = data_in(esize, count)
    /\ caller' = NewSession("writing", NoMade)
    /\ saved' = IF caller.phase = "writing"
                THEN IF SingleCall /\ saved.kind = "none"
                     THEN [kind |-> "write", order |-> caller.order,
                           n |-> caller.next, bytes |-> file.content]
                     ELSE saved
                ELSE NoSaved
    /\ pre' = [content |-> <<>>, pos |-> 0, dst |-> dst']
    /\ ResetFrame

\* ------------------------------------------------------------------------
\* Specification
\* ------------------------------------------------------------------------
Init ==
    /\ \E m \in Machines :
         /\ host_little = m[1]
         /\ build = m[2]
         /\ esize = m[3][1]
         /\ count = m[3][2]
    /\ src = data_out(host_little, esize, count)
    /\ dst = data_in(esize, count)
    /\ file = [content |-> <<>>, pos |-> 0]
    /\ buffer = <<>>
    /\ heap = NoHeap
    /\ pc = "idle"
    /\ call = NoCall
    /\ offset = 0
    /\ ret = 0
    /\ pre = [content |-> <<>>, pos |-> 0, dst |-> dst]
    /\ io = NoIo
    /\ caller = NewSession("writing", NoMade)
    /\ saved = NoSaved
    /\ faults = 0

Next ==
    \/ write_be
    \/ write_le
    \/ write_endian_batch
    \/ write_endian_exit
    \/ read_be
    \/ read_le
    \/ Reopen
    \/ Rewind
    \/ Truncate

Spec == Init /\ [][Next]_vars

\* ------------------------------------------------------------------------
\* Vocabulary of the properties
\* ------------------------------------------------------------------------
WriteReturned == pc = "returned" /\ call.kind = "write"
ReadReturned == pc = "returned" /\ call.kind = "read"

\* index in the caller's array of the first element the call was given
First == call.doff \div esize

\* what the call appended to the stream, and whether it kept what was there
Appended == SubSeq(file.content, Len(pre.content) + 1, Len(file.content))
PrefixKept ==
    /\ Len(file.content) >= Len(pre.content)
    /\ SubSeq(file.content, 1, Len(pre.content)) = pre.content

IsPrefix(p, q) == Len(p) <= Len(q) /\ p = SubSeq(q, 1, Len(p))

\* the serialized form of elements first .. first+num-1 of the caller's
\* numbers: most significant digit first for BE, least significant first
\* for LE, whatever the host
Wire(first, num, endian) ==
    [k \in 1..(num * esize) |->
        LET e == first + (k - 1) \div esize
            j == (k - 1) % esize
        IN ValueDigit(e, IF endian = ENDIAN_BIG THEN j ELSE esize - 1 - j)]

\* the next step of the running write_endian leaves the loop or advances
\* offset; if not, every further iteration repeats the same state
WriteAdvances ==
    offset >= call.num \/ batch_of(call.num, offset, call.size) >= 1

\* a loop that does not advance can take no step that changes the state
NoAdvanceIsStuck ==
    (pc = "write_loop" /\ ~WriteAdvances) =>
        ~ENABLED <<write_endian_batch \/ write_endian_exit>>_vars

\* the call is a write of the whole array to an empty stream
WholeWrite ==
    /\ call.kind = "write"
    /\ write_args_ok(call)
    /\ call.doff = 0
    /\ call.num = count
    /\ pre.content = <<>>

\* the call is a read of the whole array from the start of a stream that one
\* successful write of the whole array made, in the same order
WholeReadBack ==
    /\ ReadReturned
    /\ read_args_ok(call)
    /\ call.doff = 0
    /\ call.num = count
    /\ pre.pos = 0
    /\ caller.made.ok
    /\ caller.made.ncalls = 1
    /\ caller.made.n = count
    /\ caller.made.order = call.endian

\* ------------------------------------------------------------------------
\* C1: round trip.  Writing the whole array to an empty stream that accepts
\* every write returns success, and reading it back from the start with the
\* matching order returns success and leaves the destination equal to the
\* source, for every element size.
\* ------------------------------------------------------------------------
RoundTripReadBack == WholeReadBack => ret = 0 /\ dst = src

C1_RoundTrip ==
    /\ (WholeWrite /\ pc = "write_loop") => WriteAdvances
    /\ (WholeWrite /\ pc = "returned" /\ ~io.short /\ io.path /= "nomem")
          => ret = 0
    /\ RoundTripReadBack

\* ------------------------------------------------------------------------
\* C2: stream layout.  A successful write of num elements appends exactly
\* num * size bytes, element i at [i*size, (i+1)*size), in the requested
\* order of the numbers and not of the host: 0x11223344 gives 11 22 33 44
\* for BE and 44 33 22 11 for LE.
\* ------------------------------------------------------------------------
C2_StreamLayout ==
    (WriteReturned /\ ret = 0) =>
        /\ PrefixKept
        /\ Len(file.content) = Len(pre.content) + call.num * call.size
        /\ Appended = Wire(First, call.num, call.endian)
        /\ (esize = 4 /\ First = 0) =>
              SubSeq(Appended, 1, 4) = IF call.endian = ENDIAN_BIG
                                       THEN <<17, 34, 51, 68>>
                                       ELSE <<68, 51, 34, 17>>

C2_Witness ==
    /\ WriteReturned /\ ret = 0
    /\ host_little /\ call.endian = ENDIAN_BIG
    /\ io.path = "swap"
    /\ esize = 4 /\ First = 0
    /\ SubSeq(Appended, 1, 4) = <<17, 34, 51, 68>>

\* ------------------------------------------------------------------------
\* C3: the swap path completes.  Every iteration of the batch loop advances
\* offset by batch = min(num - offset, capacity / size) >= 1, so the loop
\* ends, and with a stream that accepts every write the call returns
\* success with all num elements written, for every element size.
\* ------------------------------------------------------------------------
SwapReturn ==
    (WriteReturned /\ io.path = "swap" /\ ~io.short) =>
        /\ ret = 0
        /\ offset = call.num
        /\ Len(Appended) = call.num * call.size

C3_WriteSwapCompletes ==
    /\ pc = "write_loop" => WriteAdvances
    /\ SwapReturn

\* the same for the element sizes that fit the scratch buffer
WriteSwapCompletesWithinCapacity ==
    /\ (pc = "write_loop" /\ call.size <= buffer_size) => WriteAdvances
    /\ SwapReturn

\* ------------------------------------------------------------------------
\* C4: short read.  A read of num elements from a stream with fewer than
\* num * size bytes left fails at the first element k whose read is short;
\* the elements below k hold the stream's elements in host order, and every
\* destination byte of element k and of the later elements is as the caller
\* supplied it.
\* ------------------------------------------------------------------------
\* bytes left in the stream when the call began
Available == Len(file.content) - pre.pos

\* element i of the stream as the call found it, and of a destination array
StreamElem(i) ==
    SubSeq(file.content, pre.pos + i * call.size + 1,
           pre.pos + (i + 1) * call.size)
DstElem(d, i) ==
    SubSeq(d, call.doff + i * call.size + 1, call.doff + (i + 1) * call.size)

\* serialized bytes of one element, in the given order, as the host holds them
HostOrder(bytes, endian) ==
    IF (endian = ENDIAN_LITTLE) = host_little THEN bytes ELSE Reverse(bytes)

ReadCall == ReadReturned /\ read_args_ok(call)

\* the call fails exactly when the stream is short, at element k = io.at,
\* and the elements below k are converted
ShortReadFails ==
    /\ (ret = -1) = (Available < call.num * call.size)
    /\ ret = -1 => /\ io.short
                   /\ io.at = Available \div call.size
                   /\ io.got = Available % call.size
    /\ \A i \in 0..(io.at - 1) :
          DstElem(dst, i) = HostOrder(StreamElem(i), call.endian)
    /\ SubSeq(dst, 1, call.doff) = SubSeq(pre.dst, 1, call.doff)

\* first byte (counted from 1) of element i of the call's destination
ElemStart(i) == call.doff + i * call.size + 1

\* the statement as claimed: element k and the later ones are untouched
C4_ShortReadUntouched ==
    ReadCall =>
        /\ ShortReadFails
        /\ ret = -1 =>
              \A b \in ElemStart(io.at)..Len(dst) : dst[b] = pre.dst[b]

\* amended: element k holds the io.got bytes the short read transferred,
\* unconverted, and is as supplied beyond them; the later elements are as
\* supplied
C4_ShortReadOutcome ==
    ReadCall =>
        /\ ShortReadFails
        /\ ret = -1 =>
              \A b \in ElemStart(io.at)..Len(dst) :
                  dst[b] = IF b < ElemStart(io.at) + io.got
                           THEN file.content[pre.pos + io.at * call.size
                                             + (b - ElemStart(io.at)) + 1]
                           ELSE pre.dst[b]

C4_Witness ==
    /\ ReadCall /\ ret = -1
    /\ io.at >= 1
    /\ io.got >= 1
    /\ swap_needed(call.endian)
    /\ call.size >= 2
    /\ dst[ElemStart(io.at)] /= pre.dst[ElemStart(io.at)]

\* ------------------------------------------------------------------------
\* C5: a failed write leaves a strict prefix.  When a write fails on a short
\* stream write, what it appended is shorter than num * size bytes and is a
\* prefix of what the successful call would have appended, and the call has
\* returned at that write; a successful call appended exactly num * size
\* bytes.
\* ------------------------------------------------------------------------
C5_WriteFailurePrefix ==
    WriteReturned =>
        /\ PrefixKept
        /\ ret = 0 => Len(Appended) = call.num * call.size
        /\ (ret = -1 /\ io.short) =>
              /\ Len(Appended) < call.num * call.size
              /\ IsPrefix(Appended, Wire(First, call.num, call.endian))
        /\ io.short => ret = -1

C5_Witness ==
    /\ WriteReturned /\ ret = -1 /\ io.short
    /\ io.path = "swap"
    /\ offset >= 1
    /\ Len(Appended) > offset * call.size
    /\ call.size >= 2

\* ------------------------------------------------------------------------
\* C6: write argument validation.  With the stream or the data absent, or
\* size or num zero, write returns -1, writes no byte and takes no scratch
\* buffer.
\* ------------------------------------------------------------------------
C6_WriteArgs ==
    (WriteReturned
       /\ (~call.file \/ ~call.data \/ call.size = 0 \/ call.num = 0)) =>
        /\ ret = -1
        /\ file = [content |-> pre.content, pos |-> pre.pos]
        /\ heap.nalloc = 0
        /\ io.path = "args"

C6_Witness ==
    /\ WriteReturned /\ ret = -1
    /\ call.file /\ call.data /\ call.size /= 0 /\ call.num = 0

\* ------------------------------------------------------------------------
\* C7: a read of zero elements succeeds and does nothing.  With stream and
\* destination present and size >= 1, num = 0 returns success, leaves the
\* stream position and the destination as they were; a read fails only on
\* an absent stream or destination, size 0, or a short read.
\* ------------------------------------------------------------------------
C7_ReadZero ==
    ReadReturned =>
        /\ (call.file /\ call.data /\ call.size >= 1 /\ call.num = 0) =>
              /\ ret = 0
              /\ file = [content |-> pre.content, pos |-> pre.pos]
              /\ dst = pre.dst
        /\ ret = -1 =>
              \/ ~call.file \/ ~call.data \/ call.size = 0
              \/ Available < call.num * call.size

C7_Witness ==
    /\ ReadReturned /\ ret = 0
    /\ call.file /\ call.data /\ call.size >= 1 /\ call.num = 0
    /\ pre.pos > 0

\* ------------------------------------------------------------------------
\* C8: write never changes the caller's source array, on any path and
\* whatever the outcome.
\* ------------------------------------------------------------------------
C8_SourceUnchanged == src = data_out(host_little, esize, count)

C8_Witness ==
    /\ WriteReturned /\ ret = 0
    /\ io.path = "swap"
    /\ call.size >= 2
    /\ Appended /= SubSeq(src, call.doff + 1, call.doff + call.num * call.size)

\* ------------------------------------------------------------------------
\* C9: lifetime of the scratch buffer.  A call takes at most one buffer and
\* only on the swap path; no buffer is live when the call has returned,
\* whether on allocation failure, on a short write in a batch or on
\* completion, and none is released twice.
\* ------------------------------------------------------------------------
C9_ScratchLifetime ==
    /\ heap.nalloc <= 1
    /\ heap.nalloc = 1 => io.path = "swap"
    /\ io.path /= "swap" => buffer = <<>>
    /\ ~heap.bad
    /\ heap.nfree <= heap.nalloc
    /\ pc = "write_loop" => (heap.live = HeapBuild /\ Len(buffer) = buffer_size)
    /\ pc \in {"idle", "returned"} =>
          /\ ~heap.live
          /\ buffer = <<>>
          /\ HeapBuild => heap.nfree = heap.nalloc

C9_Witness ==
    /\ WriteReturned /\ ret = -1 /\ io.short
    /\ io.path = "swap"
    /\ HeapBuild
    /\ offset >= 1
    /\ heap.nalloc = 1 /\ heap.nfree = 1

\* ------------------------------------------------------------------------
\* C10: calls compose.  With one element size and one order, successive
\* successful writes of A and then B leave in the stream what one write of
\* A ++ B leaves, and successive successful reads of |A| and then |B|
\* elements fill the destination as one read of |A| + |B| elements does.
\* ------------------------------------------------------------------------
\* the session is two or more successful calls that cover what the
\* remembered single call covered, in its order
Repeats(kind) ==
    /\ pc \in {"idle", "returned"}
    /\ caller.phase = (IF kind = "write" THEN "writing" ELSE "reading")
    /\ caller.ok
    /\ caller.ncalls >= 2
    /\ saved.kind = kind
    /\ saved.order = caller.order
    /\ saved.n = caller.next

C10_Compose ==
    /\ Repeats("write") => file.content = saved.bytes
    /\ Repeats("read") => SubSeq(dst, 1, caller.next * esize) = saved.bytes

C10_Witness ==
    /\ Repeats("write")
    /\ swap_needed(caller.order)
    /\ caller.next > block_elems(esize)
    /\ esize >= 2

C10_WitnessRead ==
    /\ Repeats("read")
    /\ swap_needed(caller.order)
    /\ esize >= 2

====
